---- MODULE Spec2Model ----
(***************************************************************************)
(* krb5format: the keytab and credential cache readers, the keytab writer, *)
(* Keytab.filter and CredentialCache.is_tgt_expired of src/krb5format.py,  *)
(* as a state machine over one container object and the byte stream it is  *)
(* decoding.  Byte strings (Python 2 str) are sequences of byte values.    *)
(***************************************************************************)
EXTENDS Integers, Sequences, FiniteSets, TLC

Min(a, b) == IF a <= b THEN a ELSE b

Max(a, b) == IF a >= b THEN a ELSE b

(***************************************************************************)
(* Program constants.                                                      *)
(***************************************************************************)
V0504 == 1284

V0502 == 1282

SLASH == 47

AT == 64

\* "krbtgt"
KRBTGT == <<107, 114, 98, 116, 103, 116>>

(***************************************************************************)
(* struct: fixed-width big-endian fields.  Unpacking a string whose length *)
(* is not the field's width raises struct.error.                           *)
(***************************************************************************)
char == 1

uint16 == 2

int32 == 4

uint32 == 4

UnpackU(bs) ==
  IF Len(bs) = 1 THEN bs[1]
  ELSE IF Len(bs) = 2 THEN bs[1] * 256 + bs[2]
  ELSE ((bs[1] * 256 + bs[2]) * 256 + bs[3]) * 256 + bs[4]

UnpackI32(bs) ==
  (((IF bs[1] >= 128 THEN bs[1] - 256 ELSE bs[1]) * 256 + bs[2]) * 256 + bs[3]) * 256 + bs[4]

\* struct.unpack("<L", ...)
UnpackLE32(bs) == UnpackU(<<bs[4], bs[3], bs[2], bs[1]>>)

PackU(width, n) ==
  IF width = 1 THEN <<n>>
  ELSE IF width = 2 THEN <<n \div 256, n % 256>>
  ELSE <<n \div 16777216, (n \div 65536) % 256, (n \div 256) % 256, n % 256>>

(***************************************************************************)
(* File objects: f.read(n) returns the n bytes after the position, or the  *)
(* fewer that remain, and advances the position past what it returned.     *)
(***************************************************************************)
FRead(f, pos, n) == SubSeq(f, pos + 1, Min(pos + n, Len(f)))

FTell(f, pos, n) == Min(pos + n, Len(f))

(***************************************************************************)
(* A reader's outcome: st is "ok" or the exception raised, pos the file    *)
(* position it leaves, val what it returns.                                *)
(***************************************************************************)
Ok(pos, val) == [st |-> "ok", pos |-> pos, val |-> val]

Raise(exc, pos) == [st |-> exc, pos |-> pos, val |-> <<>>]

\* r's outcome if it raised, else what F makes of it (r is evaluated once)
Then(r, F(_)) == CHOOSE out \in {IF x.st = "ok" THEN F(x) ELSE x : x \in {r}} : TRUE

\* struct.Struct.unpack(f.read(size))[0] for an unsigned field
ReadUInt(f, pos, width) ==
  LET bs == FRead(f, pos, width)
  IN  IF Len(bs) = width THEN Ok(pos + width, UnpackU(bs))
      ELSE Raise("struct.error", FTell(f, pos, width))

ReadVersion(f, pos) == ReadUInt(f, pos, uint16)

ReadArray(f, pos, array) ==
  Then(ReadUInt(f, pos, array),
       LAMBDA l : Ok(FTell(f, l.pos, l.val), FRead(f, l.pos, l.val)))

\* for i in range(n): out.append(self._read_array(f))
RECURSIVE ReadArrays(_, _, _, _, _)
ReadArrays(f, pos, array, n, acc) ==
  IF n <= 0 THEN Ok(pos, acc)
  ELSE Then(ReadArray(f, pos, array),
            LAMBDA a : ReadArrays(f, a.pos, array, n - 1, Append(acc, a.val)))

\* "/".join(components)
RECURSIVE Join(_)
Join(components) ==
  IF components = <<>> THEN <<>>
  ELSE IF Len(components) = 1 THEN components[1]
  ELSE components[1] \o <<SLASH>> \o Join(Tail(components))

\* An optional dictionary key (name_type, etype) or value (vno = None / int):
\* <<>> when absent, <<v>> when set.
ReadPrincipal(f, pos, version, array) ==
  LET nt1 == IF version = V0504 THEN ReadUInt(f, pos, uint32) ELSE Ok(pos, 0)
      cnt == Then(nt1, LAMBDA r : ReadUInt(f, r.pos, array))
  IN  IF cnt.st # "ok" THEN Raise("EOFError", cnt.pos)
      ELSE
        Then(ReadArray(f, cnt.pos, array), LAMBDA realm :
        Then(ReadArrays(f, realm.pos, array, cnt.val, <<>>), LAMBDA comps :
        Then(IF version = V0502 THEN ReadUInt(f, comps.pos, uint32) ELSE Ok(comps.pos, 0),
             LAMBDA nt2 :
               Ok(nt2.pos,
                  [name_type |-> IF version = V0504 THEN <<nt1.val>>
                                 ELSE IF version = V0502 THEN <<nt2.val>> ELSE <<>>,
                   value |-> Join(comps.val) \o <<AT>> \o realm.val]))))

ReadTime(f, pos) == ReadUInt(f, pos, uint32)

ReadKeyblock(f, pos, version) ==
  Then(ReadUInt(f, pos, uint16), LAMBDA type :
  LET etype == IF version > V0502 THEN <<FRead(f, type.pos, 2)>> ELSE <<>>
      p2    == IF version > V0502 THEN FTell(f, type.pos, 2) ELSE type.pos
  IN  Then(ReadUInt(f, p2, uint16), LAMBDA keylen :
        Ok(FTell(f, keylen.pos, keylen.val),
           [type |-> type.val, etype |-> etype, val |-> FRead(f, keylen.pos, keylen.val)])))


\* Mutant: EOFError only when nothing is left; a short field is unpacked
GetEntrySizeEmpty(f, pos) ==
  LET data == FRead(f, pos, 4)
  IN  IF Len(data) = 0 THEN Raise("EOFError", pos)
      ELSE IF Len(data) < 4 THEN Raise("struct.error", FTell(f, pos, 4))
      ELSE Ok(pos + 4, UnpackI32(data))

\* size = self.__get_entry_size(f)
GetEntrySize(f, pos) ==
  LET data == FRead(f, pos, 4)
  IN  IF Len(data) < 4 THEN Raise("EOFError", FTell(f, pos, 4))
      ELSE Ok(pos + 4, UnpackI32(data))

\* Mutant: the hole is taken to include its size field
SkipHoleLessField(f, pos, size) == FTell(f, pos, -size - 4)

\* Mutant: the hole loop seeks back to the size field it has just read
SkipHoleRewind(f, pos, size) == pos - 4

\* f.read(-size) of the hole loop: the position after a hole of -size bytes
SkipHole(f, pos, size) == FTell(f, pos, -size)

ReadVno8(f, pos) == ReadUInt(f, pos, char)

\* Mutant: the bytes left after the key version are not read
ReadVnoNoSkip(f, finish, size, start) ==
  LET remaining == size - (finish - start)
      vno  == IF remaining >= 4 THEN ReadUInt(f, finish, uint32) ELSE Ok(finish, 0)
  IN  Then(vno, LAMBDA v : Ok(v.pos, IF remaining >= 4 THEN <<v.val>> ELSE <<>>))

ReadVno(f, finish, size, start) ==
  LET remaining == size - (finish - start)
      vno  == IF remaining >= 4 THEN ReadUInt(f, finish, uint32) ELSE Ok(finish, 0)
      rem2 == IF remaining >= 4 THEN remaining - 4 ELSE remaining
  IN  Then(vno, LAMBDA v :
        Ok(IF rem2 > 0 THEN FTell(f, v.pos, rem2) ELSE v.pos,
           IF remaining >= 4 THEN <<v.val>> ELSE <<>>))

\* Keytab._load_entry from start = f.tell() on
KeytabEntry(f, start, size, version, array) ==
  Then(ReadPrincipal(f, start, version, array), LAMBDA principal :
  Then(ReadTime(f, principal.pos), LAMBDA timestamp :
  Then(ReadVno8(f, timestamp.pos), LAMBDA vno8 :
  Then(ReadKeyblock(f, vno8.pos, version), LAMBDA key :
  Then(ReadVno(f, key.pos, size, start), LAMBDA vno :
    Ok(vno.pos,
       [principal |-> principal.val, timestamp |-> timestamp.val, vno8 |-> vno8.val,
        key |-> key.val, vno |-> vno.val]))))))

(***************************************************************************)
(* Keytab.save.                                                            *)
(***************************************************************************)
\* self.array.pack(len(arr)) + arr
MakeArray(array, arr) == PackU(array, Len(arr)) \o arr

\* s.split(sep): the pieces of s between the occurrences of sep
RECURSIVE Split(_, _, _, _)
Split(s, sep, cur, acc) ==
  IF s = <<>> THEN Append(acc, cur)
  ELSE IF Head(s) = sep THEN Split(Tail(s), sep, <<>>, Append(acc, cur))
  ELSE Split(Tail(s), sep, Append(cur, Head(s)), acc)

RECURSIVE Concat(_)
Concat(ss) == IF ss = <<>> THEN <<>> ELSE Head(ss) \o Concat(Tail(ss))

\* Keytab.__write_entry: the bytes written, or the exception raised
WriteEntry(entry, array) ==
  LET parts == Split(entry.principal.value, AT, <<>>, <<>>)
  IN  IF Len(parts) # 2 THEN Raise("ValueError", 0)
      ELSE IF entry.principal.name_type = <<>> THEN Raise("KeyError", 0)
      ELSE
        LET components == Split(parts[1], SLASH, <<>>, <<>>)
            data == PackU(uint16, Len(components))
                    \o MakeArray(array, parts[2])
                    \o Concat([i \in 1..Len(components) |-> MakeArray(array, components[i])])
                    \o PackU(uint32, entry.principal.name_type[1])
                    \o PackU(uint32, entry.timestamp)
                    \o PackU(char, entry.vno8)
                    \o PackU(uint16, entry.key.type)
                    \o MakeArray(array, entry.key.val)
                    \o (IF entry.vno # <<>> /\ entry.vno[1] # 0
                        THEN PackU(uint32, entry.vno[1]) ELSE <<>>)
        IN  Ok(0, PackU(int32, Len(data)) \o data)

\* for key in self: self.__write_entry(key, f), after the version tag
RECURSIVE SaveEntries(_, _, _)
SaveEntries(es, array, out) ==
  IF es = <<>> THEN Ok(0, out)
  ELSE LET w == WriteEntry(Head(es), array)
       IN  IF w.st # "ok" THEN [st |-> w.st, pos |-> 0, val |-> out]
           ELSE SaveEntries(Tail(es), array, out \o w.val)

SaveFile(version, es, array) == SaveEntries(es, array, PackU(uint16, version))

(***************************************************************************)
(* Keytab.filter.                                                          *)
(***************************************************************************)
\* A compiled pattern is a sequence of tokens: a byte value (that literal
\* character), DOT (any character) or DOTSTAR (any run of characters).
DOT == -1

DOTSTAR == -2

\* princs.match(s): the pattern matches a prefix of s
RECURSIVE ReMatch(_, _)
ReMatch(pat, s) ==
  IF pat = <<>> THEN TRUE
  ELSE IF Head(pat) = DOTSTAR
       THEN \E k \in 0..Len(s) : ReMatch(Tail(pat), SubSeq(s, k + 1, Len(s)))
  ELSE IF s = <<>> THEN FALSE
  ELSE /\ (Head(pat) = DOT \/ Head(pat) = Head(s))
       /\ ReMatch(Tail(pat), Tail(s))

\* key in keys (list membership by ==)
InList(key, keys) == \E i \in 1..Len(keys) : keys[i] = key

\* list.remove(key): drop the first element equal to key
ListRemove(l, key) ==
  LET i == CHOOSE j \in 1..Len(l) : l[j] = key /\ \A k \in 1..(j - 1) : l[k] # key
  IN  SubSeq(l, 1, i - 1) \o SubSeq(l, i + 1, Len(l))

RECURSIVE RemoveAll(_, _)
RemoveAll(l, other_keys) ==
  IF other_keys = <<>> THEN l
  ELSE RemoveAll(ListRemove(l, Head(other_keys)), Tail(other_keys))

\* Mutant: princs.search instead of princs.match
FilterListSearch(l, pattern) ==
  LET Matches(k) == \E i \in 0..Len(k.principal.value) :
                      ReMatch(pattern, SubSeq(k.principal.value, i + 1, Len(k.principal.value)))
      keys == SelectSeq(l, Matches)
      NotKey(k) == ~InList(k, keys)
      other_keys == SelectSeq(l, NotKey)
  IN  RemoveAll(l, other_keys)

FilterList(l, pattern) ==
  LET Matches(k) == ReMatch(pattern, k.principal.value)
      keys == SelectSeq(l, Matches)
      NotKey(k) == ~InList(k, keys)
      other_keys == SelectSeq(l, NotKey)
  IN  RemoveAll(l, other_keys)

(***************************************************************************)
(* CredentialCache.                                                        *)
(***************************************************************************)
ReadTimes(f, pos) ==
  Then(ReadTime(f, pos), LAMBDA authtime :
  Then(ReadTime(f, authtime.pos), LAMBDA starttime :
  Then(ReadTime(f, starttime.pos), LAMBDA endtime :
  Then(ReadTime(f, endtime.pos), LAMBDA renew_till :
    Ok(renew_till.pos,
       [authtime |-> authtime.val, starttime |-> starttime.val,
        endtime |-> endtime.val, renew_till |-> renew_till.val])))))

ReadSegments(f, pos, array) ==
  Then(ReadUInt(f, pos, uint32), LAMBDA num_segs :
    ReadArrays(f, num_segs.pos, array, num_segs.val, <<>>))

\* struct.unpack("<L", f.read(4))
ReadTktFlags(f, pos) ==
  LET bs == FRead(f, pos, 4)
  IN  IF Len(bs) = 4 THEN Ok(pos + 4, UnpackLE32(bs))
      ELSE Raise("struct.error", FTell(f, pos, 4))

\* CredentialCache._load_entry
CredEntry(f, pos, version, array) ==
  Then(ReadPrincipal(f, pos, version, array), LAMBDA client :
  Then(ReadPrincipal(f, client.pos, version, array), LAMBDA server :
  Then(ReadKeyblock(f, server.pos, version), LAMBDA key :
  Then(ReadTimes(f, key.pos), LAMBDA times :
  Then(ReadUInt(f, times.pos, char), LAMBDA is_skey :
  Then(ReadTktFlags(f, is_skey.pos), LAMBDA tktflags :
  Then(ReadSegments(f, tktflags.pos, array), LAMBDA addrs :
  Then(ReadSegments(f, addrs.pos, array), LAMBDA authdata :
  Then(ReadArray(f, authdata.pos, array), LAMBDA ticket :
  Then(ReadArray(f, ticket.pos, array), LAMBDA ticket2 :
    Ok(ticket2.pos,
       [client |-> client.val, server |-> server.val, key |-> key.val,
        times |-> times.val, is_skey |-> is_skey.val, tktflags |-> tktflags.val,
        addrs |-> addrs.val, authdata |-> authdata.val,
        ticket |-> ticket.val, ticket2 |-> ticket2.val])))))))))))

\* One iteration of the loop of _read_headers: a (tag, tagdata) pair
ReadHeader(f, pos) ==
  Then(ReadUInt(f, pos, uint16), LAMBDA tag :
  Then(ReadUInt(f, tag.pos, uint16), LAMBDA taglen :
    Ok(FTell(f, taglen.pos, taglen.val), <<tag.val, FRead(f, taglen.pos, taglen.val)>>)))

\* datetime.datetime.now().timetuple(): the local wall-clock time, clock the
\* seconds since the epoch, timezone the zone's standard offset west of UTC
\* and dst the shift of daylight saving time while it is in effect
LocalNow(clock, timezone, dst) == clock - timezone + dst

\* calendar.timegm(...) + time.timezone: timegm reads the wall-clock fields as
\* UTC, and time.timezone is the standard (non-DST) offset
Now(clock, timezone, dst) == LocalNow(clock, timezone, dst) + timezone

\* is_tgt_expired(secs) with now as computed above: "True", "False", or
\* "None" when the loop ends without a return
RECURSIVE IsTgtExpired(_, _, _)
IsTgtExpired(keys, secs, now) ==
  IF keys = <<>> THEN "None"
  ELSE LET server  == Head(keys).server.value
           service == Split(server, SLASH, <<>>, <<>>)[1]
       IN  IF service = KRBTGT
           THEN IF Head(keys).times.endtime <= now + secs THEN "True" ELSE "False"
           ELSE IsTgtExpired(Tail(keys), secs, now)

(***************************************************************************)
(* Input files.  A file is described by its version tag, its records and   *)
(* how it was damaged: cut bytes removed from its end, or tail stray bytes *)
(* after its last record.  lay = "spec" writes a principal's name_type     *)
(* after the components for every version other than 0x0504; lay = "read"  *)
(* writes it only where _read_principal takes one (0x0502, 0x0504).        *)
(***************************************************************************)
MaxRecs == 3

MaxHole == 2

MaxTail == 3

MaxLoads == 2

Versions == {V0502 - 1, V0502, V0502 + 1, V0504}

VerLays ==
  {<<v, "spec">> : v \in Versions} \cup {<<v, "read">> : v \in Versions \ {V0502, V0504}}

HostA == <<(<<104>>), <<97>>>>

HostB == <<(<<104>>), <<98>>>>

User == <<(<<117>>)>>

Tgt == <<KRBTGT, <<82>>>>

Tgt1 == <<KRBTGT>>

Rec(t, n, comps, trail, sz, endtime) ==
  [t |-> t, n |-> n, comps |-> comps, trail |-> trail, sz |-> sz, endtime |-> endtime]

Hole(n) == Rec("hole", n, <<>>, <<>>, "exact", 0)

KEntry(comps, trail, sz) == Rec("entry", 0, comps, trail, sz, 0)

Cred(comps, endtime) == Rec("cred", 0, comps, <<>>, "exact", endtime)

Vno3 == <<0, 0, 0, 3>>

Trails == {<<>>, Vno3, <<0, 0, 0, 0>>, <<0, 0, 0, 3, 7, 7>>, <<7, 7>>}

ArrayWidth(version) == IF version = V0504 THEN 4 ELSE 2

PackI32(n) == IF n >= 0 THEN PackU(4, n) ELSE <<255, 255, 255, 256 + n>>

EncArray(version, arr) == PackU(ArrayWidth(version), Len(arr)) \o arr

EncPrincipal(comps, version, lay) ==
  LET body == PackU(ArrayWidth(version), Len(comps))
              \o EncArray(version, <<82>>)
              \o Concat([i \in 1..Len(comps) |-> EncArray(version, comps[i])])
  IN  IF version = V0504 THEN PackU(4, 1) \o body
      ELSE IF lay = "spec" \/ version = V0502 THEN body \o PackU(4, 1)
      ELSE body

EncKey(version) ==
  PackU(2, 17) \o (IF version > V0502 THEN <<0, 17>> ELSE <<>>) \o PackU(2, 2) \o <<9, 8>>

EncRec(r, version, lay) ==
  IF r.t = "hole" THEN PackI32(-r.n) \o [i \in 1..r.n |-> 0]
  ELSE IF r.t = "entry" THEN
    LET body == EncPrincipal(r.comps, version, lay) \o PackU(4, 5) \o <<2>>
                \o EncKey(version) \o r.trail
        size == IF r.sz = "zero" THEN 0
                ELSE IF r.sz = "short" THEN Len(body) - Len(r.trail) - 2
                ELSE Len(body)
    IN  PackI32(size) \o body
  ELSE EncPrincipal(User, version, lay) \o EncPrincipal(r.comps, version, lay)
       \o EncKey(version)
       \o PackU(4, 1) \o PackU(4, 2) \o PackU(4, r.endtime) \o PackU(4, 0)
       \o <<0>> \o <<1, 0, 0, 0>>
       \o PackU(4, 1) \o EncArray(version, <<4>>) \o PackU(4, 0)
       \o EncArray(version, <<6>>) \o EncArray(version, <<>>)

\* The credential cache's header block (one tag) and default principal
EncIntro(kind, version, lay) ==
  IF kind = "keytab" THEN <<>>
  ELSE PackU(2, 6) \o PackU(2, 1) \o PackU(2, 2) \o <<0, 0>> \o EncPrincipal(User, version, lay)

Src(kind, vl, recs, cut, tail) ==
  [kind |-> kind, version |-> vl[1], lay |-> vl[2], recs |-> recs, cut |-> cut, tail |-> tail]

EncFile(s) ==
  LET full == PackU(2, s.version) \o EncIntro(s.kind, s.version, s.lay)
              \o Concat([i \in 1..Len(s.recs) |-> EncRec(s.recs[i], s.version, s.lay)])
  IN  SubSeq(full, 1, Len(full) - s.cut) \o [i \in 1..s.tail |-> 0]

LastLen(recs, vl) == Len(EncRec(recs[Len(recs)], vl[1], vl[2]))

Lists(pool, lo, hi) == UNION {[1..n -> pool] : n \in lo..hi}

KShapes ==
  {KEntry(HostA, tr, "exact") : tr \in Trails}
  \cup {KEntry(HostA, <<>>, "zero"), KEntry(HostA, Vno3, "zero"), KEntry(HostA, <<>>, "short")}
  \cup {Hole(n) : n \in 1..MaxHole}

KSeqPool == {KEntry(HostA, Vno3, "exact"), KEntry(User, <<>>, "exact"), Hole(1)}

KCutBases == {<<KEntry(HostA, Vno3, "exact")>>, <<Hole(MaxHole)>>,
              <<KEntry(User, <<>>, "exact"), KEntry(HostA, <<>>, "exact")>>}

CShapes == {Cred(c, e) : c \in {Tgt, Tgt1, HostA}, e \in {10, 20}}

CCutBases == {<<Cred(Tgt, 10)>>, <<Cred(HostA, 20), Cred(Tgt, 10)>>}

Damaged(kind, bases) ==
  UNION {{Src(kind, vl, rs, c, 0) : c \in 1..LastLen(rs, vl)} : vl \in VerLays, rs \in bases}
  \cup {Src(kind, vl, rs, 0, t) : vl \in VerLays, rs \in bases \cup {<<>>}, t \in 1..MaxTail}

KeytabSrcs ==
  {Src("keytab", vl, rs, 0, 0) :
     vl \in VerLays, rs \in Lists(KShapes, 0, 1)}
  \cup {Src("keytab", <<v, "spec">>, rs, 0, 0) :
          v \in {V0502, V0504}, rs \in Lists(KSeqPool, 2, MaxRecs)}
  \cup Damaged("keytab", KCutBases)

CCacheSrcs ==
  {Src("ccache", vl, rs, 0, 0) : vl \in VerLays, rs \in Lists(CShapes, 0, 2)}
  \cup Damaged("ccache", CCutBases)

\* The files a finished container is asked to load next
ReloadSrcs(kind) ==
  {Src(kind, <<v, "read">>,
       IF kind = "keytab" THEN <<KEntry(HostB, Vno3, "exact")>> ELSE <<Cred(Tgt, 20)>>, 0, 0) :
     v \in {V0502, V0504}}

WellFormed(s) ==
  /\ s.cut = 0
  /\ s.tail = 0
  /\ \A i \in 1..Len(s.recs) : s.recs[i].sz = "exact"

Patterns == {<<104, 47, DOTSTAR>>, <<104, 47, 97>>, <<117>>, <<97>>, <<DOT, 47>>, <<DOTSTAR, 82>>}

\* Seconds since the epoch at which is_tgt_expired is called
Nows == {8, 10, 18}

\* time.timezone of the host: UTC, and a zone five hours west
Timezones == {0, 18000}

\* Daylight saving time not in effect, or in effect
DstShifts == {0, 3600}

Secs == {0, 2}

(***************************************************************************)
(* The container object and the load in progress.                          *)
(*   src            the file being loaded (its description)                *)
(*   f, pos         the open file's bytes and position                     *)
(*   pc             where load is: "open", "version", "hdrlen", "headers", *)
(*                  "size", "hole", "body", "cred"; "done" once load has   *)
(*                  returned, "error" once an exception has left the call  *)
(*   array, version, entries, headers, default_princ                       *)
(*                  self.array (.size), self.version, the list itself,     *)
(*                  the headers read so far, self.default_princ            *)
(*   size, hdrEnd   _load_entry's size, _read_headers' pos + headerlen     *)
(*   loads          load calls made on this object                         *)
(*   disk, orig     the file save wrote, and the container it wrote from   *)
(*                  (its version and entries, the file and the number of   *)
(*                  loads it came from)                                    *)
(*   rt             the object is a new Keytab built from disk             *)
(*   tgt            the last is_tgt_expired call: result, secs, clock      *)
(*   err            the exception that ended the call                      *)
(***************************************************************************)
VARIABLES src, f, pos, pc, array, version, entries, headers, default_princ,
          size, hdrEnd, loads, disk, orig, rt, tgt, err

vars == <<src, f, pos, pc, array, version, entries, headers, default_princ,
          size, hdrEnd, loads, disk, orig, rt, tgt, err>>

NoPrinc == [name_type |-> <<>>, value |-> <<>>]

NoTgt == [res |-> "unset", secs |-> 0, clock |-> 0, dst |-> 0]

NoOrig == [version |-> 0, entries |-> <<>>, src |-> Src("keytab", <<0, "read">>, <<>>, 0, 0),
           loads |-> 0]

\* Krb5File.__init__ of a Keytab or a CredentialCache, before it calls load:
\* list.__init__(self); self.array = uint16
Init ==
  /\ src \in {Src(kind, <<0, "read">>, <<>>, 0, 0) : kind \in {"keytab", "ccache"}}
  /\ f = <<>>
  /\ pos = 0
  /\ pc = "open"
  /\ array = uint16
  /\ version = 0
  /\ entries = <<>>
  /\ headers = <<>>
  /\ default_princ = NoPrinc
  /\ size = 0
  /\ hdrEnd = 0
  /\ loads = 0
  /\ disk = <<>>
  /\ orig = NoOrig
  /\ rt = FALSE
  /\ tgt = NoTgt
  /\ err = "none"

\* self.load(filename) of the constructor: open(filename, 'rb')
Open ==
  /\ pc = "open"
  /\ src' \in IF src.kind = "keytab" THEN KeytabSrcs ELSE CCacheSrcs
  /\ f' = EncFile(src')
  /\ pos' = 0
  /\ pc' = "version"
  /\ loads' = 1
  /\ UNCHANGED <<array, version, entries, headers, default_princ, size, hdrEnd, disk, orig,
                 rt, tgt, err>>

Fail(exc) ==
  /\ pc' = "error"
  /\ err' = exc

\* load: self.version = self._read_version(f); the array width
LoadVersion ==
  /\ pc = "version"
  /\ LET r == ReadVersion(f, pos)
     IN  IF r.st = "ok"
         THEN /\ version' = r.val
              /\ array' = IF r.val = V0504 THEN uint32 ELSE array
              /\ pos' = r.pos
              /\ pc' = IF src.kind = "keytab" THEN "size" ELSE "hdrlen"
              /\ err' = err
         ELSE /\ Fail(r.st)
              /\ pos' = r.pos
              /\ UNCHANGED <<version, array>>
  /\ UNCHANGED <<src, f, entries, headers, default_princ, size, hdrEnd, loads, disk, orig,
                 rt, tgt>>

\* CredentialCache._read_headers: headerlen, pos
ReadHeaderLen ==
  /\ pc = "hdrlen"
  /\ LET r == ReadUInt(f, pos, uint16)
     IN  IF r.st = "ok"
         THEN /\ hdrEnd' = r.pos + r.val
              /\ headers' = <<>>
              /\ pc' = "headers"
              /\ err' = err
         ELSE /\ Fail(r.st)
              /\ UNCHANGED <<hdrEnd, headers>>
  /\ pos' = ReadUInt(f, pos, uint16).pos
  /\ UNCHANGED <<src, f, array, version, entries, default_princ, size, loads, disk, orig,
                 rt, tgt>>

\* One iteration of while (f.tell() < pos + headerlen)
ReadHeaderStep ==
  /\ pc = "headers"
  /\ pos < hdrEnd
  /\ LET r == ReadHeader(f, pos)
     IN  /\ pos' = r.pos
         /\ IF r.st = "ok"
            THEN /\ headers' = Append(headers, r.val)
                 /\ UNCHANGED <<pc, err>>
            ELSE /\ Fail(r.st)
                 /\ UNCHANGED headers
  /\ UNCHANGED <<src, f, array, version, entries, default_princ, size, hdrEnd, loads, disk,
                 orig, rt, tgt>>

\* The loop's exit, and self.default_princ = self._read_principal(f): an
\* EOFError here is outside load's try and leaves the call
ReadDefaultPrinc ==
  /\ pc = "headers"
  /\ pos >= hdrEnd
  /\ LET r == ReadPrincipal(f, pos, version, array)
     IN  /\ pos' = r.pos
         /\ IF r.st = "ok"
            THEN /\ default_princ' = r.val
                 /\ pc' = "cred"
                 /\ err' = err
            ELSE /\ Fail(r.st)
                 /\ UNCHANGED default_princ
  /\ UNCHANGED <<src, f, array, version, entries, headers, size, hdrEnd, loads, disk, orig,
                 rt, tgt>>

\* Keytab._load_entry: size = self.__get_entry_size(f), first or in the hole
\* loop; its EOFError ends load's loop
ReadSize ==
  /\ pc = "size"
  /\ LET r == GetEntrySize(f, pos)
     IN  /\ pos' = r.pos
         /\ IF r.st = "ok"
            THEN /\ size' = r.val
                 /\ pc' = IF r.val < 0 THEN "hole" ELSE "body"
                 /\ err' = err
            ELSE IF r.st = "EOFError"
            THEN /\ pc' = "done"
                 /\ UNCHANGED <<size, err>>
            ELSE /\ Fail(r.st)
                 /\ size' = size
  /\ UNCHANGED <<src, f, array, version, entries, headers, default_princ, hdrEnd, loads, disk,
                 orig, rt, tgt>>

\* while size < 0: f.read(-size)
ReadHole ==
  /\ pc = "hole"
  /\ pos' = SkipHole(f, pos, size)
  /\ pc' = "size"
  /\ UNCHANGED <<src, f, array, version, entries, headers, default_princ, size, hdrEnd, loads,
                 disk, orig, rt, tgt, err>>

\* The rest of an iteration of load's loop: entry = self._load_entry(f),
\* except EOFError: break, self.append(entry)
LoadStep(r, again) ==
  /\ pos' = r.pos
  /\ IF r.st = "ok"
     THEN /\ entries' = Append(entries, r.val)
          /\ pc' = again
          /\ err' = err
     ELSE IF r.st = "EOFError"
     THEN /\ pc' = "done"
          /\ UNCHANGED <<entries, err>>
     ELSE /\ Fail(r.st)
          /\ UNCHANGED entries
  /\ UNCHANGED <<src, f, array, version, headers, default_princ, size, hdrEnd, loads, disk,
                 orig, rt, tgt>>

LoadKeytabEntry ==
  /\ pc = "body"
  /\ LoadStep(KeytabEntry(f, pos, size, version, array), "size")

LoadCredEntry ==
  /\ pc = "cred"
  /\ LoadStep(CredEntry(f, pos, version, array), "cred")

\* A further load(filename) on the same object
Reload ==
  /\ pc = "done"
  /\ ~rt
  /\ loads < MaxLoads
  /\ src' \in ReloadSrcs(src.kind)
  /\ f' = EncFile(src')
  /\ pos' = 0
  /\ pc' = "version"
  /\ loads' = loads + 1
  /\ tgt' = NoTgt
  /\ UNCHANGED <<array, version, entries, headers, default_princ, size, hdrEnd, disk, orig,
                 rt, err>>

\* Keytab.save(filename)
Save ==
  /\ pc = "done"
  /\ src.kind = "keytab"
  /\ ~rt
  /\ disk = <<>>
  /\ LET w == SaveFile(version, entries, array)
     IN  /\ disk' = w.val
         /\ IF w.st = "ok" THEN UNCHANGED <<pc, err>> ELSE Fail(w.st)
  /\ orig' = [version |-> version, entries |-> entries, src |-> src, loads |-> loads]
  /\ UNCHANGED <<src, f, pos, array, version, entries, headers, default_princ, size, hdrEnd,
                 loads, rt, tgt>>

\* Keytab(filename) on the file save wrote
LoadSaved ==
  /\ pc = "done"
  /\ ~rt
  /\ disk # <<>>
  /\ rt' = TRUE
  /\ f' = disk
  /\ pos' = 0
  /\ pc' = "version"
  /\ array' = uint16
  /\ version' = 0
  /\ entries' = <<>>
  /\ loads' = 1
  /\ UNCHANGED <<src, headers, default_princ, size, hdrEnd, disk, orig, tgt, err>>

\* Keytab.filter(pattern)
FilterBy(pattern) ==
  /\ pc = "done"
  /\ src.kind = "keytab"
  /\ ~rt
  /\ entries' = FilterList(entries, pattern)
  /\ UNCHANGED <<src, f, pos, pc, array, version, headers, default_princ, size, hdrEnd, loads,
                 disk, orig, rt, tgt, err>>

Filter == \E pattern \in Patterns : FilterBy(pattern)

\* CredentialCache.is_tgt_expired(secs), called at time clock on a host in the
\* given zone
TgtExpired ==
  /\ pc = "done"
  /\ src.kind = "ccache"
  /\ \E secs \in Secs, clock \in Nows, timezone \in Timezones, dst \in DstShifts :
       tgt' = [res |-> IsTgtExpired(entries, secs, Now(clock, timezone, dst)),
               secs |-> secs, clock |-> clock, dst |-> dst]
  /\ UNCHANGED <<src, f, pos, pc, array, version, entries, headers, default_princ, size,
                 hdrEnd, loads, disk, orig, rt, err>>

\* The steps of a load call once the file is open
Loading ==
  \/ LoadVersion
  \/ ReadHeaderLen
  \/ ReadHeaderStep
  \/ ReadDefaultPrinc
  \/ ReadSize
  \/ ReadHole
  \/ LoadKeytabEntry
  \/ LoadCredEntry

Next ==
  \/ Open
  \/ Loading
  \/ Reload
  \/ Save
  \/ LoadSaved
  \/ Filter
  \/ TgtExpired

Spec == Init /\ [][Next]_vars

\* The load calls alone: a call that has opened its file runs on (the program
\* is one thread), and a finished container may be asked to load again
Calls ==
  \/ Open
  \/ Loading
  \/ Reload

LoadSpec == Init /\ [][Calls]_vars /\ WF_vars(Loading)

(***************************************************************************)
(* What a file's records hold, for comparison with what load decoded.      *)
(***************************************************************************)
\* The file's layout is the one _read_principal follows for its version
ReaderLayout(s) == s.lay = "read" \/ s.version \in {V0502, V0504}

SrcEntries(s) == SelectSeq(s.recs, LAMBDA r : r.t # "hole")

SrcValue(comps) == Join(comps) \o <<AT, 82>>

\* The principal of a record as the file states it: name_type 1 wherever the
\* layout holds one
SrcPrincipal(comps, hasType) ==
  [name_type |-> IF hasType THEN <<1>> ELSE <<>>, value |-> SrcValue(comps)]

SrcKey(v) == [type |-> 17, etype |-> IF v > V0502 THEN <<(<<0, 17>>)>> ELSE <<>>, val |-> <<9, 8>>]

SrcEntry(r, v, hasType) ==
  IF r.t = "entry"
  THEN [principal |-> SrcPrincipal(r.comps, hasType), timestamp |-> 5, vno8 |-> 2,
        key |-> SrcKey(v),
        vno |-> IF Len(r.trail) >= 4 THEN <<UnpackU(SubSeq(r.trail, 1, 4))>> ELSE <<>>]
  ELSE [client |-> SrcPrincipal(User, hasType), server |-> SrcPrincipal(r.comps, hasType),
        key |-> SrcKey(v),
        times |-> [authtime |-> 1, starttime |-> 2, endtime |-> r.endtime, renew_till |-> 0],
        is_skey |-> 0, tktflags |-> 1, addrs |-> <<(<<4>>)>>, authdata |-> <<>>,
        ticket |-> <<6>>, ticket2 |-> <<>>]

\* The principal load decoded for entry e: a keytab entry's, a credential's server
PrincipalOf(e, kind) == IF kind = "keytab" THEN e.principal ELSE e.server

FirstLoad == loads = 1 /\ ~rt

HasType(s) == s.version \in {V0502, V0504}

Decoded(s, hasType) ==
  [i \in 1..Len(SrcEntries(s)) |-> SrcEntry(SrcEntries(s)[i], s.version, hasType)]

SameEntry(a, b) ==
  /\ a.principal.value = b.principal.value
  /\ a.principal.name_type = b.principal.name_type
  /\ a.timestamp = b.timestamp
  /\ a.vno8 = b.vno8
  /\ a.key = b.key
  /\ (a.vno = b.vno \/ (a.vno = <<0>> /\ b.vno = <<>>))

\* C1: a Keytab loaded from a well-formed file of any supported version
\* (laid out as _read_principal takes it) can
\* be saved, the saved file can be loaded, and the new Keytab has the same
\* version and the same entries field by field, except that a trailing key
\* version of zero may be absent.
C1_RoundTrip ==
  (orig.loads = 1 /\ WellFormed(orig.src) /\ ReaderLayout(orig.src)) =>
    /\ err \notin {"KeyError", "ValueError"}
    /\ rt => /\ pc # "error"
             /\ pc = "done" =>
                  /\ version = orig.version
                  /\ Len(entries) = Len(orig.entries)
                  /\ \A i \in 1..Len(entries) : SameEntry(orig.entries[i], entries[i])

\* C2: the first load of a well-formed file whose principals are laid out as
\* the claim says (0x0504: 4-byte lengths, name_type before the count; any
\* other version: 2-byte lengths, name_type after the last component)
\* completes and decodes every record's principal value and name_type.
C2_VersionGating ==
  [][(FirstLoad /\ WellFormed(src) /\ src.lay = "spec" /\ pc \notin {"open", "done", "error"}) =>
       /\ pc' # "error"
       /\ pc' = "done" =>
            /\ Len(entries') = Len(SrcEntries(src))
            /\ \A i \in 1..Len(entries') :
                 PrincipalOf(entries'[i], src.kind)
                   = SrcPrincipal(SrcEntries(src)[i].comps, TRUE)]_vars

\* The width of the field a record starts with: the keytab's size field, or
\* a credential's first principal field (0x0504: name_type, else the count)
BoundaryWidth(kind, v, w) == IF kind = "keytab" \/ v = V0504 THEN 4 ELSE w

EofAtBoundary(width) ==
  /\ (pc \in {"size", "cred"} /\ Len(f) - pos < width) =>
       (pc' = "done" /\ entries' = entries)
  /\ (/\ FirstLoad
      /\ ReaderLayout(src)
      /\ src.cut = 0
      /\ \A i \in 1..Len(src.recs) : src.recs[i].sz = "exact"
      /\ src.tail < width
      /\ pc \notin {"open", "done", "error"}) =>
       (pc' # "error" /\ (pc' = "done" => entries' = Decoded(src, HasType(src))))

\* C3 (as amended): when fewer bytes remain than the width of the field the
\* next record starts with (4 for the keytab size field and for the 0x0504
\* name_type, the array-length width for the component count otherwise),
\* load finishes without raising and appends nothing more; the container of
\* a file that ends so holds exactly the complete records, in file order.
C3_EofAtBoundary ==
  [][EofAtBoundary(BoundaryWidth(src.kind, version, array))]_vars

\* C3 as stated: the same with "fewer than 4 bytes" for every record kind.
C3_EofBelowFour == [][EofAtBoundary(4)]_vars

C3_Witness ==
  /\ pc = "done"
  /\ FirstLoad
  /\ src.kind = "ccache"
  /\ version = V0502
  /\ src.tail = 1
  /\ Len(entries) = 2

\* C4: a file (first load, laid out as the reader takes it) that ends
\* strictly inside a record (a keytab body after a
\* positive size field promising more bytes than remain; the last credential
\* of a cut credential cache once its first field has been read) makes load
\* raise, and no entry of that record is appended.
C4_MidRecordTruncation ==
  [][(/\ FirstLoad
      /\ ReaderLayout(src)
      /\ \/ (pc = "body" /\ size > 0 /\ Len(f) < pos + size)
         \/ /\ pc = "cred"
            /\ src.cut > 0
            /\ Len(entries) = Len(src.recs) - 1
            /\ Len(f) - pos >= BoundaryWidth("ccache", version, array))
     => (pc' = "error" /\ entries' = entries)]_vars

C6_Filter ==
  [][\A pattern \in Patterns :
       FilterBy(pattern) =>
         entries' = SelectSeq(entries, LAMBDA k : ReMatch(pattern, k.principal.value))]_vars

\* u@R, h/a@R, u@R filtered down to h/a@R
C6_Witness ==
  /\ pc = "done"
  /\ FirstLoad
  /\ Len(src.recs) = 3
  /\ src.recs[1].comps = User /\ src.recs[2].comps = HostA /\ src.recs[3].comps = User
  /\ Len(entries) = 1
  /\ entries[1].principal.value = SrcValue(HostA)

StartsWith(s, prefix) == Len(s) >= Len(prefix) /\ SubSeq(s, 1, Len(prefix)) = prefix

First(n, P(_)) ==
  IF \E i \in 1..n : P(i) THEN CHOOSE i \in 1..n : P(i) /\ \A j \in 1..(i - 1) : ~P(j) ELSE 0

TgtAnswer(i, endtime) ==
  IF i = 0 THEN "None"
  ELSE IF endtime <= tgt.clock + tgt.secs THEN "True" ELSE "False"

\* C7: is_tgt_expired(G) called at current time now is True iff T <= now + G
\* and False otherwise, T the endtime of the first entry in file order whose
\* server principal's first component is "krbtgt"; with no such entry it is
\* None.
C7_TgtExpiry ==
  (tgt.res # "unset" /\ FirstLoad /\ WellFormed(src) /\ ReaderLayout(src)) =>
    LET i == First(Len(src.recs),
                   LAMBDA k : src.recs[k].comps # <<>> /\ src.recs[k].comps[1] = KRBTGT)
    IN  tgt.res = TgtAnswer(i, IF i = 0 THEN 0 ELSE src.recs[i].endtime)

\* Where _read_vno finds the file: after the key block of the record at start
KeyBlockEnd(start) ==
  Then(ReadPrincipal(f, start, version, array), LAMBDA principal :
  Then(ReadTime(f, principal.pos), LAMBDA timestamp :
  Then(ReadVno8(f, timestamp.pos), LAMBDA vno8 :
    ReadKeyblock(f, vno8.pos, version)))).pos

VnoRule == (entries'[Len(entries')].vno # <<>>) <=> (size - (KeyBlockEnd(pos) - pos) >= 4)

C9_ArrayWidth ==
  pc \in {"hdrlen", "headers", "size", "hole", "body", "cred", "done"} =>
    (array = 4 <=> version = V0504)

\* C10: every load call that has opened its file ends, by returning or by
\* raising.
C10_Terminates == (pc \notin {"open", "done", "error"}) ~> (pc \in {"done", "error"})

\* A credential cache with a header and two credentials, loaded to its end
C10_Witness ==
  /\ pc = "done"
  /\ src.kind = "ccache"
  /\ Len(headers) = 1
  /\ Len(entries) = 2
  /\ pos = Len(f)

====
